---- MODULE Spec2Model ----
(***************************************************************************)
(* A model of the Discord_Clone backend: the relational tables written by  *)
(* DatabaseStorage (src/shared/schema.ts), the route handlers and the      *)
(* in-memory SSE registry (src/server/storage.ts).  Every `await` of a     *)
(* handler is a point where other handlers may run, so each handler is a   *)
(* small process whose actions are the code between two awaits.            *)
(*                                                                         *)
(* The specifications share the tables:                                    *)
(*   Spec       - POST /api/invites/:code/join (invite redemption)         *)
(*   SpecCreate - POST /api/servers (createServer)                         *)
(*   SpecMsg    - message POSTs, the events streams and the SSE registry   *)
(*   SpecEvents - the events streams alone, with the event loop's fairness *)
(*   SpecAccess - the routes of a channel while users join its server      *)
(*   SpecDm     - POST /api/dm/:userId/messages alone                      *)
(***************************************************************************)
EXTENDS Integers, Sequences, FiniteSets, Bags, TLC

VARIABLES
    servers,          \* table servers: the set of server ids
    serverMembers,    \* table server_members: a bag of rows (no unique key)
    channels,         \* table channels: a bag of rows
    serverInvites,    \* table server_invites: code -> row (code is UNIQUE)
    messages,         \* table messages: rows in insertion order
    dmConversations,  \* table dm_conversations: a set of rows (distinct ids)
    sseConnections,   \* the registry Map<string, Response[]>
    conn,             \* the events requests / their responses
    written,          \* per connection: the payloads res.write accepted
    postReq,          \* the message POST requests
    joinReq,          \* the POST /api/invites/:code/join requests
    createReq,        \* the POST /api/servers requests
    getReq,           \* the GET /api/channels/:channelId/messages requests
    inviteReq,        \* the POST /api/servers/:serverId/invites requests
    client            \* the DirectMessageArea views open in browsers

vars == <<servers, serverMembers, channels, serverInvites, messages,
          dmConversations, sseConnections, conn, written, postReq,
          joinReq, createReq, getReq, inviteReq, client>>

dbVars == <<servers, serverMembers, channels, serverInvites, messages,
            dmConversations>>

msgVars == <<sseConnections, conn, written, postReq>>

\* ---------------------------------------------------------------- bounds

\* Number of concurrent join requests.
NJoins == 2
\* Number of concurrent createServer requests.
NCreates == 2
\* Number of concurrent message POST requests.
NPosts == 2
\* Number of events requests (SSE connections).
NConns == 2

\* Number of requests of each route in SpecAccess.
NAccess == 1

\* Number of concurrent invite creation requests.
NInvites == 3

Joins == 1..NJoins
Creates == 1..NCreates
Posts == 1..NPosts
Conns == 1..NConns
Access == 1..NAccess
Invites == 1..NInvites

\* ------------------------------------------------------------ the tables

\* The server, its owner membership and its default channel as createServer
\* leaves them (rows of the initial database of Spec and SpecMsg).
\* The row the insert would create with `role` left to the column default.
DefaultRoleRow(serverId, userId) ==
    [serverId |-> serverId, userId |-> userId, role |-> "member"]

OwnerRow(serverId, userId) ==
    [serverId |-> serverId, userId |-> userId, role |-> "owner"]

MemberRow(serverId, userId) ==
    [serverId |-> serverId, userId |-> userId, role |-> "member"]

GeneralChannel(id, serverId) ==
    [id |-> id, name |-> "general", type |-> "text", serverId |-> serverId]

\* An invite row; maxUses is <<>> for NULL (unlimited) and <<n>> when set,
\* usedCount is the decimal text of the column read as a number.
InviteRow(code, serverId, maxUses, expired) ==
    [code |-> code, serverId |-> serverId, maxUses |-> maxUses,
     usedCount |-> 0, expired |-> expired]

\* The number of rows of a bag that are copies of a row in `rows`.
CountRows(bag, rows) ==
    LET sum[S \in SUBSET rows] ==
            IF S = {} THEN 0
            ELSE LET r == CHOOSE x \in S : TRUE
                 IN  CopiesIn(r, bag) + sum[S \ {r}]
    IN  sum[rows]

\* ------------------------------------------------------ storage: reads

isUserInServer(userId, serverId) ==
    \E r \in BagToSet(serverMembers) :
        r.userId = userId /\ r.serverId = serverId

\* <<>> when no row has the code, else <<row>>.
getServerInviteByCode(code) ==
    IF code \in DOMAIN serverInvites THEN <<serverInvites[code]>> ELSE <<>>

\* ----------------------------------------------------- storage: writes

joinServer(serverId, userId) ==
    serverMembers' = serverMembers (+) SetToBag({MemberRow(serverId, userId)})

\* An update whose WHERE matches no row: nothing is counted.
useServerInviteNoRow(code) ==
    serverInvites' = serverInvites

useServerInvite(code) ==
    serverInvites' =
        [c \in DOMAIN serverInvites |->
            IF c = code
            THEN [serverInvites[c] EXCEPT !.usedCount = @ + 1]
            ELSE serverInvites[c]]

\* ------------------------------------------- POST /api/invites/:code/join

JoinUsers == {"u1", "u2", "u3"}
JoinCodes == {"K1", "K2", "KX"}

JoinIdle == [pc |-> "idle", userId |-> "", code |-> "", serverId |-> "",
             res |-> ""]

\* A cap test that lets one use too many through (> for >=).
MaxUsesExceeded(invite) ==
    invite.maxUses # <<>> /\ invite.usedCount > invite.maxUses[1]

\* The cap test of the handler on the row it read.
MaxUsesReached(invite) ==
    invite.maxUses # <<>> /\ invite.usedCount >= invite.maxUses[1]

\* The request arrives; the handler reads the invite and runs the three
\* checks that need only the row.
JoinGetInvite(j) ==
    /\ joinReq[j].pc = "idle"
    /\ \E userId \in JoinUsers, code \in JoinCodes :
          LET found == getServerInviteByCode(code)
              req == [joinReq[j] EXCEPT !.userId = userId, !.code = code]
          IN  joinReq' = [joinReq EXCEPT ![j] =
                IF found = <<>>
                THEN [req EXCEPT !.pc = "done", !.res = "404 invalid"]
                ELSE IF found[1].expired
                THEN [req EXCEPT !.pc = "done", !.res = "400 expired"]
                ELSE IF MaxUsesReached(found[1])
                THEN [req EXCEPT !.pc = "done", !.res = "400 max uses"]
                ELSE [req EXCEPT !.pc = "isUserInServer",
                                 !.serverId = found[1].serverId]]
    /\ UNCHANGED <<dbVars, msgVars,
                   createReq, getReq, inviteReq, client>>

\* A handler that counts the use before it looks at the membership: the
\* rejected caller has consumed a use.
JoinCheckMemberAfterUse(j) ==
    /\ joinReq[j].pc = "isUserInServer"
    /\ IF isUserInServer(joinReq[j].userId, joinReq[j].serverId)
       THEN /\ useServerInvite(joinReq[j].code)
            /\ joinReq' = [joinReq EXCEPT ![j].pc = "done",
                                          ![j].res = "400 already member"]
       ELSE /\ joinReq' = [joinReq EXCEPT ![j].pc = "joinServer"]
            /\ UNCHANGED serverInvites
    /\ UNCHANGED <<servers, serverMembers, channels, messages,
                   dmConversations, msgVars, createReq, getReq,
                   inviteReq, client>>

\* await storage.isUserInServer(userId, invite.serverId)
JoinCheckMember(j) ==
    /\ joinReq[j].pc = "isUserInServer"
    /\ joinReq' = [joinReq EXCEPT ![j] =
          IF isUserInServer(joinReq[j].userId, joinReq[j].serverId)
          THEN [@ EXCEPT !.pc = "done", !.res = "400 already member"]
          ELSE [@ EXCEPT !.pc = "joinServer"]]
    /\ UNCHANGED <<dbVars, msgVars,
                   createReq, getReq, inviteReq, client>>

\* await storage.joinServer(invite.serverId, userId); the insert may fail
\* (the store is unreachable), which the handler's catch turns into a 500.
JoinInsert(j) ==
    /\ joinReq[j].pc = "joinServer"
    /\ \/ /\ joinServer(joinReq[j].serverId, joinReq[j].userId)
          /\ joinReq' = [joinReq EXCEPT ![j].pc = "useServerInvite"]
       \/ /\ joinReq' = [joinReq EXCEPT ![j].pc = "done", ![j].res = "500"]
          /\ UNCHANGED serverMembers
    /\ UNCHANGED <<servers, channels, serverInvites, messages,
                   dmConversations, msgVars, createReq, getReq,
                   inviteReq, client>>

\* await storage.useServerInvite(code); may fail likewise.
JoinUse(j) ==
    /\ joinReq[j].pc = "useServerInvite"
    /\ \/ /\ useServerInvite(joinReq[j].code)
          /\ joinReq' = [joinReq EXCEPT ![j].pc = "getServerWithChannels"]
       \/ /\ joinReq' = [joinReq EXCEPT ![j].pc = "done", ![j].res = "500"]
          /\ UNCHANGED serverInvites
    /\ UNCHANGED <<servers, serverMembers, channels, messages,
                   dmConversations, msgVars, createReq, getReq,
                   inviteReq, client>>

\* await storage.getServerWithChannels(...); res.json(server)
JoinRespond(j) ==
    /\ joinReq[j].pc = "getServerWithChannels"
    /\ joinReq' = [joinReq EXCEPT ![j].pc = "done", ![j].res = "200"]
    /\ UNCHANGED <<dbVars, msgVars,
                   createReq, getReq, inviteReq, client>>

\* ---------------------------------- POST /api/servers/:serverId/invites

\* The callers: the owner u1 and the non-member u3; the maxUses of the body.
InviteCreators == {"u1", "u3"}
InviteMaxUses == {<<>>, <<1>>}

\* Math.random().toString(36).substring(2, 12).toUpperCase(): any code may
\* come out, also one that was drawn before.
GeneratedCodes == {"K1", "K2"}

InviteIdle == [pc |-> "idle", userId |-> "", code |-> "", maxUses |-> <<>>,
               status |-> 0]

\* The request arrives; after isUserInServer the handler draws the code
\* and builds inviteData.
InviteCheckMember(i) ==
    /\ inviteReq[i].pc = "idle"
    /\ \E userId \in InviteCreators, maxUses \in InviteMaxUses :
          LET req == [inviteReq[i] EXCEPT !.userId = userId,
                                          !.maxUses = maxUses]
          IN  IF isUserInServer(userId, "s1")
              THEN \E code \in GeneratedCodes :
                      inviteReq' = [inviteReq EXCEPT ![i] =
                         [req EXCEPT !.pc = "createServerInvite",
                                     !.code = code]]
              ELSE inviteReq' = [inviteReq EXCEPT ![i] =
                      [req EXCEPT !.pc = "done", !.status = 403]]
    /\ UNCHANGED <<dbVars, msgVars, joinReq, createReq, getReq, client>>

\* await storage.createServerInvite(inviteData): the insert; a code that
\* is already in the table violates its UNIQUE constraint, the insert
\* throws and the handler's catch answers 500.
InviteInsert(i) ==
    /\ inviteReq[i].pc = "createServerInvite"
    /\ IF inviteReq[i].code \in DOMAIN serverInvites
       THEN /\ inviteReq' = [inviteReq EXCEPT ![i].pc = "done",
                                              ![i].status = 500]
            /\ UNCHANGED serverInvites
       ELSE /\ serverInvites' = serverInvites @@
                  (inviteReq[i].code :>
                      InviteRow(inviteReq[i].code, "s1",
                                inviteReq[i].maxUses, FALSE))
            /\ inviteReq' = [inviteReq EXCEPT ![i].pc = "done",
                                              ![i].status = 200]
    /\ UNCHANGED <<servers, serverMembers, channels, messages,
                   dmConversations, msgVars, joinReq, createReq, getReq,
                   client>>

\* ------------------------------------------------------ POST /api/servers

CreateOwners == {"u1", "u2"}

CreateIdle == [pc |-> "idle", ownerId |-> "", serverId |-> "", res |-> ""]

\* gen_random_uuid(): an id no other row has; request k draws "s<k>".
NewServerId(k) == "s" \o ToString(k)
NewChannelId(k) == "c" \o ToString(k)

\* createServer, first insert: the servers row (.returning() gives its id).
CreateInsertServer(k) ==
    /\ createReq[k].pc = "idle"
    /\ \E ownerId \in CreateOwners :
          \/ /\ servers' = servers \cup {NewServerId(k)}
             /\ createReq' = [createReq EXCEPT ![k] =
                   [@ EXCEPT !.pc = "insertMember", !.ownerId = ownerId,
                             !.serverId = NewServerId(k)]]
          \/ /\ createReq' = [createReq EXCEPT ![k] =
                   [@ EXCEPT !.pc = "done", !.ownerId = ownerId,
                             !.res = "500"]]
             /\ UNCHANGED servers
    /\ UNCHANGED <<serverMembers, channels, serverInvites, messages,
                   dmConversations, msgVars, joinReq, getReq,
                   inviteReq, client>>

\* createServer, second insert: the owner's server_members row.
CreateInsertMember(k) ==
    /\ createReq[k].pc = "insertMember"
    /\ \/ /\ serverMembers' = serverMembers (+)
                SetToBag({OwnerRow(createReq[k].serverId, createReq[k].ownerId)})
          /\ createReq' = [createReq EXCEPT ![k].pc = "insertChannel"]
       \/ /\ createReq' = [createReq EXCEPT ![k].pc = "done", ![k].res = "500"]
          /\ UNCHANGED serverMembers
    /\ UNCHANGED <<servers, channels, serverInvites, messages,
                   dmConversations, msgVars, joinReq, getReq,
                   inviteReq, client>>

\* createServer, third insert: the default channel; then res.json(server).
CreateInsertChannel(k) ==
    /\ createReq[k].pc = "insertChannel"
    /\ \/ /\ channels' = channels (+)
                SetToBag({GeneralChannel(NewChannelId(k), createReq[k].serverId)})
          /\ createReq' = [createReq EXCEPT ![k].pc = "done", ![k].res = "200"]
       \/ /\ createReq' = [createReq EXCEPT ![k].pc = "done", ![k].res = "500"]
          /\ UNCHANGED channels
    /\ UNCHANGED <<servers, serverMembers, serverInvites, messages,
                   dmConversations, msgVars, joinReq, getReq,
                   inviteReq, client>>

\* ------------------------------------------------- strings and the DM key

NULL == "NULL"

\* The UTF-16 code units of the user ids of the model.
CodeUnits(s) ==
    CASE s = "u1" -> <<117, 49>>
      [] s = "u2" -> <<117, 50>>
      [] s = "u3" -> <<117, 51>>
      [] s = "u10" -> <<117, 49, 48>>
      [] s = "U1" -> <<85, 49>>
      [] s = "a" -> <<97>>
      [] s = "c" -> <<99>>
      [] s = "a-b" -> <<97, 45, 98>>
      [] s = "b-c" -> <<98, 45, 99>>

\* JavaScript's a < b on strings: lexicographic on code units.
RECURSIVE SeqLess(_, _)
SeqLess(a, b) ==
    IF b = <<>> THEN FALSE
    ELSE IF a = <<>> THEN TRUE
    ELSE IF a[1] # b[1] THEN a[1] < b[1]
    ELSE SeqLess(Tail(a), Tail(b))

StrLess(a, b) == SeqLess(CodeUnits(a), CodeUnits(b))

\* [a, b].sort(): the default comparator orders by code units.
SortPair(a, b) == IF StrLess(b, a) THEN <<b, a>> ELSE <<a, b>>

\* A key built from the pair as given, without the sort.
dmKeyUnsorted(a, b) == "dm-" \o a \o "-" \o b

\* `dm-${[a, b].sort().join('-')}`
dmKey(a, b) == "dm-" \o SortPair(a, b)[1] \o "-" \o SortPair(a, b)[2]

Range(seq) == {seq[i] : i \in DOMAIN seq}

\* ------------------------------------------------ storage: messages, DMs

\* A membership query without its user condition: any member of the
\* channel's server lets the caller in.
isUserInChannelAnyUser(userId, channelId) ==
    \E ch \in BagToSet(channels), r \in BagToSet(serverMembers) :
        /\ ch.id = channelId
        /\ ch.serverId = r.serverId

\* A membership query without its channel condition: a member of any
\* server that has a channel is let in.
isUserInChannelAnyChannel(userId, channelId) ==
    \E ch \in BagToSet(channels), r \in BagToSet(serverMembers) :
        /\ ch.serverId = r.serverId
        /\ r.userId = userId

isUserInChannel(userId, channelId) ==
    \E ch \in BagToSet(channels), r \in BagToSet(serverMembers) :
        /\ ch.id = channelId
        /\ ch.serverId = r.serverId
        /\ r.userId = userId

\* created_at defaultNow(): not before the previous row's, possibly equal.
CreatedAtChoices ==
    IF messages = <<>> THEN {1}
    ELSE {messages[Len(messages)].createdAt,
          messages[Len(messages)].createdAt + 1}

\* An insert that never sets recipient_id (the column list of the channel
\* route used for every message).
MessageRowChannelOnly(content, channelId, userId, recipientId, createdAt) ==
    [id |-> Len(messages) + 1, content |-> content, channelId |-> channelId,
     userId |-> userId, recipientId |-> NULL, createdAt |-> createdAt]

\* The row an insert into messages creates; ids are drawn in insert order.
MessageRow(content, channelId, userId, recipientId, createdAt) ==
    [id |-> Len(messages) + 1, content |-> content, channelId |-> channelId,
     userId |-> userId, recipientId |-> recipientId, createdAt |-> createdAt]

\* The select list of getMessagesByChannelId / getDirectMessages: the row
\* joined with its author.
Hydrate(m) ==
    [id |-> m.id, content |-> m.content, channelId |-> m.channelId,
     userId |-> m.userId, recipientId |-> m.recipientId,
     createdAt |-> m.createdAt, user |-> [id |-> m.userId]]

\* WHERE channel_id = channelId
ChannelRows(channelId) ==
    {m \in Range(messages) : m.channelId = channelId}

\* WHERE channel_id IS NULL AND the pair matches in either direction
DirectRows(user1Id, user2Id) ==
    {m \in Range(messages) :
        /\ m.channelId = NULL
        /\ \/ m.userId = user1Id /\ m.recipientId = user2Id
           \/ m.userId = user2Id /\ m.recipientId = user1Id}

\* ORDER BY created_at DESC: the rows that may come first (equal created_at
\* leaves the order to the database).
NewestFirstHeads(rows) ==
    {m \in rows : \A n \in rows : n.createdAt <= m.createdAt}

\* A lookup without the second branch of its `or`: only the order given.
getDmConversationOneWay(user1Id, user2Id) ==
    {c \in dmConversations :
        c.user1Id = user1Id /\ c.user2Id = user2Id}

\* getDmConversation: the rows matching the pair in either order.
getDmConversation(user1Id, user2Id) ==
    {c \in dmConversations :
        \/ c.user1Id = user1Id /\ c.user2Id = user2Id
        \/ c.user1Id = user2Id /\ c.user2Id = user1Id}

\* An insert of the pair in the order of the arguments.
ConversationRowAsGiven(id, user1Id, user2Id) ==
    [id |-> id, user1Id |-> user1Id, user2Id |-> user2Id]

\* The values createDmConversation inserts: the smaller id first.
ConversationRow(id, user1Id, user2Id) ==
    [id |-> id,
     user1Id |-> IF StrLess(user1Id, user2Id) THEN user1Id ELSE user2Id,
     user2Id |-> IF StrLess(user1Id, user2Id) THEN user2Id ELSE user1Id]

\* ------------------------------------------------------- the SSE registry

ConnectedEvent == [type |-> "connected"]
MessageEvent(fullMessage) == [type |-> "message", data |-> fullMessage]

\* Every registered connection, whatever its key, in connection order.
AllRegistered ==
    UNION {Range(sseConnections[k]) : k \in DOMAIN sseConnections}

\* A broadcast that ignores the scope: the loop runs over every list.
RegistryGetAnyKey(key) ==
    LET Rank(e) == Cardinality({x \in AllRegistered : x <= e})
    IN  [i \in 1..Cardinality(AllRegistered) |->
            CHOOSE e \in AllRegistered : Rank(e) = i]

\* sseConnections.get(key) || []
RegistryGet(key) ==
    IF key \in DOMAIN sseConnections THEN sseConnections[key] ELSE <<>>

\* if (!has(key)) set(key, []); get(key).push(res)
RegistryPush(key, e) ==
    IF key \in DOMAIN sseConnections
    THEN [sseConnections EXCEPT ![key] = Append(@, e)]
    ELSE sseConnections @@ (key :> <<e>>)

\* A splice without its delete count, splice(index): drops the first
\* occurrence and everything after it.
RECURSIVE SpliceToEnd(_, _)
SpliceToEnd(connections, e) ==
    IF connections = <<>> THEN <<>>
    ELSE IF Head(connections) = e THEN <<>>
    ELSE <<Head(connections)>> \o SpliceToEnd(Tail(connections), e)

\* indexOf(res) and splice(index, 1): drops the first occurrence, if any.
RECURSIVE Splice(_, _)
Splice(connections, e) ==
    IF connections = <<>> THEN <<>>
    ELSE IF Head(connections) = e THEN Tail(connections)
    ELSE <<Head(connections)>> \o Splice(Tail(connections), e)

\* A broadcast without the try/catch around write: the first throw leaves
\* the loop, the connections after it are never written.
DeliveredUntilThrow(connections, throwing) ==
    {connections[i] : i \in {k \in DOMAIN connections :
        \A j \in 1..k : connections[j] \notin throwing}}

\* The forEach of a broadcast: write is called on every connection of the
\* list in turn, inside its own try/catch; `throwing` are the connections
\* whose write throws.  The connections whose write returned:
Delivered(connections, throwing) ==
    {connections[i] : i \in {k \in DOMAIN connections :
                                connections[k] \notin throwing}}

\* The body of the close listener on a registry: get(key) || [], indexOf,
\* splice.  The list is changed in place, a missing key is not created.
OnClose(registry, key, e) ==
    IF key \in DOMAIN registry
    THEN [registry EXCEPT ![key] = Splice(@, e)]
    ELSE registry

\* ------------------------------------------------- the message POST routes

ChannelPostInputs ==
    {[userId |-> "u1", target |-> "c1"], [userId |-> "u3", target |-> "c1"]}
DmPostInputs ==
    {[userId |-> "u1", target |-> "u2"], [userId |-> "u2", target |-> "u1"]}

\* users.id is a varchar filled from the identity provider's `sub`: the
\* users a-b and c write to each other.
HyphenDmPostInputs ==
    {[userId |-> "a-b", target |-> "c"], [userId |-> "c", target |-> "a-b"]}

\* connections: the list the broadcast loop ran over; errors: the
\* connections for which the loop's catch logged a failed write.
PostIdle == [pc |-> "idle", kind |-> "", userId |-> "", target |-> "",
             conversationId |-> 0, messageId |-> 0, fullMessage |-> <<>>,
             connections |-> <<>>, errors |-> {}, status |-> 0]

\* Requests are numbered in the order they arrive.
Arrived(req, i) == IF i = 1 THEN TRUE ELSE req[i - 1].pc # "idle"

\* The registry key a POST publishes under.
PostKey(req) ==
    IF req.kind = "channel" THEN req.target
    ELSE dmKey(req.userId, req.target)

\* The rows a POST re-reads: the history of its scope.
PostScopeRows(req) ==
    IF req.kind = "channel" THEN ChannelRows(req.target)
    ELSE DirectRows(req.userId, req.target)

\* POST /api/channels/:channelId/messages up to the access check.
PostChannelCheck(p) ==
    /\ postReq[p].pc = "idle"
    /\ Arrived(postReq, p)
    /\ \E in \in ChannelPostInputs :
          LET req == [postReq[p] EXCEPT !.kind = "channel",
                          !.userId = in.userId, !.target = in.target]
          IN  postReq' = [postReq EXCEPT ![p] =
                IF isUserInChannel(in.userId, in.target)
                THEN [req EXCEPT !.pc = "createMessage"]
                ELSE [req EXCEPT !.pc = "done", !.status = 403]]
    /\ UNCHANGED <<dbVars, sseConnections, conn, written, joinReq,
                   createReq, getReq, inviteReq, client>>

\* POST /api/dm/:userId/messages: createDirectMessage calls
\* createDmConversation, which first looks the conversation up.
PostDmLookup(p, inputs) ==
    /\ postReq[p].pc = "idle"
    /\ Arrived(postReq, p)
    /\ \E in \in inputs :
          LET req == [postReq[p] EXCEPT !.kind = "dm",
                          !.userId = in.userId, !.target = in.target]
              existing == getDmConversation(in.userId, in.target)
          IN  \/ /\ existing = {}
                 /\ postReq' = [postReq EXCEPT ![p] =
                       [req EXCEPT !.pc = "insertConversation"]]
              \/ \E c \in existing :
                    postReq' = [postReq EXCEPT ![p] =
                       [req EXCEPT !.pc = "createMessage",
                                   !.conversationId = c.id]]
    /\ UNCHANGED <<dbVars, sseConnections, conn, written, joinReq,
                   createReq, getReq, inviteReq, client>>

\* createDmConversation: no row was found, insert one (its id is fresh).
PostDmInsertConversation(p) ==
    /\ postReq[p].pc = "insertConversation"
    /\ dmConversations' = dmConversations \cup
          {ConversationRow(p, postReq[p].userId, postReq[p].target)}
    /\ postReq' = [postReq EXCEPT ![p].pc = "createMessage",
                                  ![p].conversationId = p]
    /\ UNCHANGED <<servers, serverMembers, channels, serverInvites, messages,
                   sseConnections, conn, written, joinReq,
                   createReq, getReq, inviteReq, client>>

\* storage.createMessage / the messages insert of createDirectMessage.
PostInsert(p) ==
    /\ postReq[p].pc = "createMessage"
    /\ \E t \in CreatedAtChoices :
          LET row == IF postReq[p].kind = "channel"
                     THEN MessageRow(p, postReq[p].target, postReq[p].userId,
                                     NULL, t)
                     ELSE MessageRow(p, NULL, postReq[p].userId,
                                     postReq[p].target, t)
          IN  /\ messages' = Append(messages, row)
              /\ postReq' = [postReq EXCEPT ![p].pc = "reread",
                                            ![p].messageId = row.id]
    /\ UNCHANGED <<servers, serverMembers, channels, serverInvites,
                   dmConversations, sseConnections, conn, written,
                   joinReq, createReq, getReq, inviteReq, client>>

\* const [fullMessage] = await storage.getMessagesByChannelId(channelId)
\* (getDirectMessages(senderId, recipientId) for a DM): the query runs.
PostReread(p) ==
    /\ postReq[p].pc = "reread"
    /\ \E m \in NewestFirstHeads(PostScopeRows(postReq[p])) :
          postReq' = [postReq EXCEPT ![p].pc = "publish",
                                     ![p].fullMessage = <<Hydrate(m)>>]
    /\ UNCHANGED <<dbVars, sseConnections, conn, written, joinReq,
                   createReq, getReq, inviteReq, client>>

\* A broadcast over sseConnections.get(key) without the `|| []`: with no
\* entry for the key forEach is called on undefined, the TypeError reaches
\* the handler's catch and the sender gets a 500.
PostPublishNoDefault(p) ==
    /\ postReq[p].pc = "publish"
    /\ IF PostKey(postReq[p]) \in DOMAIN sseConnections
       THEN LET connections == RegistryGet(PostKey(postReq[p]))
                gone == {e \in Range(connections) : conn[e].close # "none"}
            IN  \E throwing \in SUBSET gone :
                   /\ written' = [e \in DOMAIN written |->
                         IF e \in Delivered(connections, throwing)
                         THEN Append(written[e],
                                     MessageEvent(postReq[p].fullMessage[1]))
                         ELSE written[e]]
                   /\ postReq' = [postReq EXCEPT ![p].pc = "done",
                                                 ![p].connections = connections,
                                                 ![p].errors = throwing,
                                                 ![p].status = 200]
       ELSE /\ postReq' = [postReq EXCEPT ![p].pc = "done",
                                          ![p].status = 500]
            /\ UNCHANGED written
    /\ UNCHANGED <<dbVars, sseConnections, conn, joinReq, createReq, getReq,
                   inviteReq, client>>

\* A broadcast without the try/catch around write: the first throw leaves
\* the loop for the handler's catch and the sender gets a 500.
PostPublishNoCatch(p) ==
    /\ postReq[p].pc = "publish"
    /\ LET connections == RegistryGet(PostKey(postReq[p]))
           gone == {e \in Range(connections) : conn[e].close # "none"}
       IN  \E throwing \in SUBSET gone :
              /\ written' = [e \in DOMAIN written |->
                    IF e \in DeliveredUntilThrow(connections, throwing)
                    THEN Append(written[e],
                                MessageEvent(postReq[p].fullMessage[1]))
                    ELSE written[e]]
              /\ postReq' = [postReq EXCEPT ![p].pc = "done",
                                            ![p].connections = connections,
                                            ![p].errors = throwing,
                                            ![p].status =
                                               IF throwing = {} THEN 200
                                               ELSE 500]
    /\ UNCHANGED <<dbVars, sseConnections, conn, joinReq, createReq, getReq,
                   inviteReq, client>>

\* The handler resumes with fullMessage: the broadcast loop, then
\* res.json(fullMessage).  A write to a connection whose client is gone
\* either throws (caught and logged) or is accepted and dropped.
PostPublish(p) ==
    /\ postReq[p].pc = "publish"
    /\ LET connections == RegistryGet(PostKey(postReq[p]))
           gone == {e \in Range(connections) : conn[e].close # "none"}
       IN  \E throwing \in SUBSET gone :
              /\ written' = [e \in DOMAIN written |->
                    IF e \in Delivered(connections, throwing)
                    THEN Append(written[e],
                                MessageEvent(postReq[p].fullMessage[1]))
                    ELSE written[e]]
              /\ postReq' = [postReq EXCEPT ![p].pc = "done",
                                            ![p].connections = connections,
                                            ![p].errors = throwing,
                                            ![p].status = 200]
    /\ UNCHANGED <<dbVars, sseConnections, conn, joinReq, createReq, getReq,
                   inviteReq, client>>

\* ----------------------------------- GET /api/channels/:channelId/messages

ChannelGetInputs ==
    {[userId |-> "u2", target |-> "c1"], [userId |-> "u3", target |-> "c1"]}

\* body: the ids of the rows the response carries.
GetIdle == [pc |-> "idle", userId |-> "", target |-> "", body |-> {},
            status |-> 0]

\* The request arrives and the handler awaits isUserInChannel.
GetMessagesArrive(g) ==
    /\ getReq[g].pc = "idle"
    /\ Arrived(getReq, g)
    /\ \E in \in ChannelGetInputs :
          getReq' = [getReq EXCEPT ![g] =
             [@ EXCEPT !.pc = "isUserInChannel",
                       !.userId = in.userId, !.target = in.target]]
    /\ UNCHANGED <<dbVars, msgVars, joinReq, createReq, inviteReq,
                   client>>

\* The membership query runs: 403, or on to the history query.
GetMessagesCheck(g) ==
    /\ getReq[g].pc = "isUserInChannel"
    /\ getReq' = [getReq EXCEPT ![g] =
          IF isUserInChannel(getReq[g].userId, getReq[g].target)
          THEN [@ EXCEPT !.pc = "getMessagesByChannelId"]
          ELSE [@ EXCEPT !.pc = "done", !.status = 403]]
    /\ UNCHANGED <<dbVars, msgVars, joinReq, createReq, inviteReq,
                   client>>

\* await storage.getMessagesByChannelId(channelId); res.json(messages)
GetMessagesRespond(g) ==
    /\ getReq[g].pc = "getMessagesByChannelId"
    /\ getReq' = [getReq EXCEPT ![g] =
          [@ EXCEPT !.pc = "done", !.status = 200,
                    !.body = {m.id : m \in ChannelRows(getReq[g].target)}]]
    /\ UNCHANGED <<dbVars, msgVars, joinReq, createReq, inviteReq,
                   client>>

\* ---------------------------------------------------- the events routes

ChannelConnInputs ==
    {[userId |-> "u2", target |-> "c1"], [userId |-> "u3", target |-> "c1"]}
DmConnInputs ==
    {[userId |-> "u1", target |-> "u2"], [userId |-> "u2", target |-> "u1"]}

\* c opens the stream of its conversation with a-b; user a opens the
\* stream of a peer id b-c (:userId is taken from the URL as it comes).
HyphenDmConnInputs ==
    {[userId |-> "c", target |-> "a-b"], [userId |-> "a", target |-> "b-c"]}

\* close: "none" while the client is connected; when the client goes the
\* request's close event is "pending" if a listener is attached and
\* "missed" if none is yet; "handled" once the listener has run.
ConnIdle == [pc |-> "idle", kind |-> "", userId |-> "", target |-> "",
             key |-> "", close |-> "none", status |-> 0]

\* GET /api/channels/:channelId/events arrives and awaits isUserInChannel.
ConnChannelArrive(e) ==
    /\ conn[e].pc = "idle"
    /\ Arrived(conn, e)
    /\ \E in \in ChannelConnInputs :
          conn' = [conn EXCEPT ![e] =
             [@ EXCEPT !.pc = "isUserInChannel", !.kind = "channel",
                       !.userId = in.userId, !.target = in.target]]
    /\ UNCHANGED <<dbVars, sseConnections, written, postReq,
                   joinReq, createReq, getReq, inviteReq, client>>

\* A subscription that registers the response and leaves the connected
\* event out.
SubscribeNoGreeting(e, key) ==
    /\ sseConnections' = RegistryPush(key, e)
    /\ UNCHANGED written

\* writeHead, push into the registry, write the connected event, attach the
\* close listener: one synchronous block.  A write to a connection whose
\* client is already gone throws or is accepted and dropped; either way the
\* response stays in the registry.
Subscribe(e, key) ==
    /\ sseConnections' = RegistryPush(key, e)
    /\ \/ written' = [written EXCEPT ![e] = Append(@, ConnectedEvent)]
       \/ conn[e].close # "none" /\ UNCHANGED written

\* The channel events handler resumes after isUserInChannel.
ConnChannelRegister(e) ==
    /\ conn[e].pc = "isUserInChannel"
    /\ IF isUserInChannel(conn[e].userId, conn[e].target)
       THEN /\ Subscribe(e, conn[e].target)
            /\ conn' = [conn EXCEPT ![e].pc = "open",
                                    ![e].key = conn[e].target,
                                    ![e].status = 200]
       ELSE /\ conn' = [conn EXCEPT ![e].pc = "done", ![e].status = 403]
            /\ UNCHANGED <<sseConnections, written>>
    /\ UNCHANGED <<dbVars, postReq, joinReq, createReq, getReq,
                   inviteReq, client>>

\* GET /api/dm/:userId/events: no await, the handler subscribes at once.
ConnDmRegister(e, inputs) ==
    /\ conn[e].pc = "idle"
    /\ Arrived(conn, e)
    /\ \E in \in inputs :
          /\ Subscribe(e, dmKey(in.userId, in.target))
          /\ conn' = [conn EXCEPT ![e] =
                [@ EXCEPT !.pc = "open", !.kind = "dm",
                          !.userId = in.userId, !.target = in.target,
                          !.key = dmKey(in.userId, in.target),
                          !.status = 200]]
    /\ UNCHANGED <<dbVars, postReq, joinReq, createReq, getReq,
                   inviteReq, client>>

\* The client closes the transport.
ClientClose(e) ==
    /\ conn[e].pc \in {"isUserInChannel", "open"}
    /\ conn[e].close = "none"
    /\ conn' = [conn EXCEPT ![e].close =
          IF conn[e].pc = "open" THEN "pending" ELSE "missed"]
    /\ UNCHANGED <<dbVars, sseConnections, written, postReq,
                   joinReq, createReq, getReq, inviteReq, client>>

\* req.on('close', ...): the listener removes the response from its list.
ConnCloseHandler(e) ==
    /\ conn[e].close = "pending"
    /\ sseConnections' = OnClose(sseConnections, conn[e].key, e)
    /\ conn' = [conn EXCEPT ![e].close = "handled"]
    /\ UNCHANGED <<dbVars, written, postReq, joinReq, createReq, getReq,
                   inviteReq, client>>

\* ------------------------------------------------------------------ Spec

\* The invite table the join requests run against: K1 with any cap, K2 with
\* a cap of one and possibly expired, both of server s1.
InviteTables ==
    {[c \in {"K1", "K2"} |->
        IF c = "K1" THEN InviteRow("K1", "s1", m, FALSE)
        ELSE InviteRow("K2", "s1", <<1>>, e)] :
     m \in {<<>>, <<1>>, <<2>>}, e \in BOOLEAN}

\* The database after u1 created server s1.
InitServerS1 ==
    /\ servers = {"s1"}
    /\ serverMembers = SetToBag({OwnerRow("s1", "u1")})
    /\ channels = SetToBag({GeneralChannel("c1", "s1")})

\* The messaging side at rest (Spec and SpecCreate do not touch it).
InitNoMessaging ==
    /\ messages = <<>>
    /\ dmConversations = {}
    /\ sseConnections = <<>>
    /\ conn = <<>>
    /\ written = <<>>
    /\ postReq = <<>>

Init ==
    /\ InitServerS1
    /\ serverInvites \in InviteTables
    /\ InitNoMessaging
    /\ createReq = <<>>
    /\ joinReq = [j \in Joins |-> JoinIdle]
    /\ getReq = <<>>
    /\ inviteReq = <<>>
    /\ client = <<>>

Next ==
    \E j \in Joins :
        \/ JoinGetInvite(j)
        \/ JoinCheckMember(j)
        \/ JoinInsert(j)
        \/ JoinUse(j)
        \/ JoinRespond(j)

Spec == Init /\ [][Next]_vars

\* ------------------------------------------------------------ SpecCreate

InitCreate ==
    /\ servers = {}
    /\ serverMembers = EmptyBag
    /\ channels = EmptyBag
    /\ serverInvites = <<>>
    /\ InitNoMessaging
    /\ joinReq = <<>>
    /\ createReq = [k \in Creates |-> CreateIdle]
    /\ getReq = <<>>
    /\ inviteReq = <<>>
    /\ client = <<>>

NextCreate ==
    \E k \in Creates :
        \/ CreateInsertServer(k)
        \/ CreateInsertMember(k)
        \/ CreateInsertChannel(k)

SpecCreate == InitCreate /\ [][NextCreate]_vars

\* --------------------------------------------------------------- SpecMsg

\* The database after u1 created server s1 and u2 joined it.
InitMsg ==
    /\ servers = {"s1"}
    /\ serverMembers = SetToBag({OwnerRow("s1", "u1")})
                          (+) SetToBag({MemberRow("s1", "u2")})
    /\ channels = SetToBag({GeneralChannel("c1", "s1")})
    /\ serverInvites = <<>>
    /\ messages = <<>>
    /\ dmConversations = {}
    /\ sseConnections = <<>>
    /\ conn = [e \in Conns |-> ConnIdle]
    /\ written = [e \in Conns |-> <<>>]
    /\ postReq = [p \in Posts |-> PostIdle]
    /\ joinReq = <<>>
    /\ createReq = <<>>
    /\ getReq = <<>>
    /\ inviteReq = <<>>
    /\ client = <<>>

NextMsg ==
    \/ \E p \in Posts :
          \/ PostChannelCheck(p)
          \/ PostDmLookup(p, DmPostInputs)
          \/ PostDmInsertConversation(p)
          \/ PostInsert(p)
          \/ PostReread(p)
          \/ PostPublish(p)
    \/ \E e \in Conns :
          \/ ConnChannelArrive(e)
          \/ ConnChannelRegister(e)
          \/ ConnDmRegister(e, DmConnInputs)
          \/ ClientClose(e)
          \/ ConnCloseHandler(e)

SpecMsg == InitMsg /\ [][NextMsg]_vars

\* ------------------------------------------------------------ SpecEvents

\* The events routes alone: clients open streams and go away.
InitEvents ==
    /\ servers = {"s1"}
    /\ serverMembers = SetToBag({OwnerRow("s1", "u1")})
                          (+) SetToBag({MemberRow("s1", "u2")})
    /\ channels = SetToBag({GeneralChannel("c1", "s1")})
    /\ serverInvites = <<>>
    /\ messages = <<>>
    /\ dmConversations = {}
    /\ sseConnections = <<>>
    /\ conn = [e \in Conns |-> ConnIdle]
    /\ written = [e \in Conns |-> <<>>]
    /\ postReq = <<>>
    /\ joinReq = <<>>
    /\ createReq = <<>>
    /\ getReq = <<>>
    /\ inviteReq = <<>>
    /\ client = <<>>

NextEvents ==
    \E e \in Conns :
        \/ ConnChannelArrive(e)
        \/ ConnChannelRegister(e)
        \/ ConnDmRegister(e, DmConnInputs)
        \/ ClientClose(e)
        \/ ConnCloseHandler(e)

\* The event loop runs every continuation and every emitted event's
\* listener: a handler waiting on the membership query resumes, a pending
\* close listener runs.  Nothing obliges a client to connect or to leave.
EventLoopFairness ==
    \A e \in Conns :
        /\ WF_vars(ConnChannelRegister(e))
        /\ WF_vars(ConnCloseHandler(e))

SpecEvents == InitEvents /\ [][NextEvents]_vars /\ EventLoopFairness

\* ------------------------------------------------------------ SpecAccess

\* The routes of channel c1 while users redeem the invites of its server:
\* memberships appear while requests are checked.
InitAccess ==
    /\ InitServerS1
    /\ serverInvites \in InviteTables
    /\ messages = <<>>
    /\ dmConversations = {}
    /\ sseConnections = <<>>
    /\ conn = [e \in Access |-> ConnIdle]
    /\ written = [e \in Access |-> <<>>]
    /\ postReq = [p \in Access |-> PostIdle]
    /\ joinReq = [j \in Access |-> JoinIdle]
    /\ createReq = <<>>
    /\ getReq = [g \in Access |-> GetIdle]
    /\ inviteReq = <<>>
    /\ client = <<>>

NextAccess ==
    \/ \E j \in Access :
          \/ JoinGetInvite(j)
          \/ JoinCheckMember(j)
          \/ JoinInsert(j)
          \/ JoinUse(j)
          \/ JoinRespond(j)
    \/ \E p \in Access :
          \/ PostChannelCheck(p)
          \/ PostInsert(p)
          \/ PostReread(p)
          \/ PostPublish(p)
    \/ \E e \in Access :
          \/ ConnChannelArrive(e)
          \/ ConnChannelRegister(e)
          \/ ClientClose(e)
          \/ ConnCloseHandler(e)
    \/ \E g \in Access :
          \/ GetMessagesArrive(g)
          \/ GetMessagesCheck(g)
          \/ GetMessagesRespond(g)

SpecAccess == InitAccess /\ [][NextAccess]_vars

\* ---------------------------------------------------------------- SpecDm

\* The direct-message POST route alone, nobody listening.
InitDm ==
    /\ InitServerS1
    /\ serverInvites = <<>>
    /\ messages = <<>>
    /\ dmConversations = {}
    /\ sseConnections = <<>>
    /\ conn = <<>>
    /\ written = <<>>
    /\ postReq = [p \in Posts |-> PostIdle]
    /\ joinReq = <<>>
    /\ createReq = <<>>
    /\ getReq = <<>>
    /\ inviteReq = <<>>
    /\ client = <<>>

NextDm ==
    \E p \in Posts :
        \/ PostDmLookup(p, DmPostInputs)
        \/ PostDmInsertConversation(p)
        \/ PostInsert(p)
        \/ PostReread(p)
        \/ PostPublish(p)

SpecDm == InitDm /\ [][NextDm]_vars

\* ------------------------------------------- the client's DM view

\* DirectMessageArea of u1, showing the conversation with u2.
ClientView == [userId |-> "u1", target |-> "u2"]
ClientConnInputs == {ClientView}

\* The connection of the view's EventSource.
ClientStream == 1

\* fetch: the state of the history query; response: the body in flight;
\* cache: <<>> while the query data is undefined, else <<list>>; read: the
\* number of events of the stream the EventSource has dispatched.
ClientMounted == [fetch |-> "sent", response |-> <<>>, cache |-> <<>>,
                  read |-> 0]

\* ORDER BY created_at DESC over the whole result: every order the
\* database may return the rows in.
RECURSIVE NewestFirst(_)
NewestFirst(rows) ==
    IF rows = {} THEN {<<>>}
    ELSE UNION {{<<m>> \o s : s \in NewestFirst(rows \ {m})} :
                m \in NewestFirstHeads(rows)}

\* GET /api/dm/:userId/messages: getDirectMessages runs and the rows are
\* sent as the response body.
DmGetMessages ==
    /\ client.fetch = "sent"
    /\ \E s \in NewestFirst(DirectRows(ClientView.userId, ClientView.target)) :
          client' = [client EXCEPT !.fetch = "responded",
                        !.response = [i \in DOMAIN s |-> Hydrate(s[i])]]
    /\ UNCHANGED <<dbVars, msgVars, joinReq, createReq, getReq, inviteReq>>

\* useQuery: the response arrives and becomes the query's data.
QueryResolve ==
    /\ client.fetch = "responded"
    /\ client' = [client EXCEPT !.fetch = "resolved",
                                !.cache = <<client.response>>]
    /\ UNCHANGED <<dbVars, msgVars, joinReq, createReq, getReq, inviteReq>>

\* setQueryData's updater: prepend, or start a list when there is no data.
Prepended(oldMessages, data) ==
    IF oldMessages = <<>> THEN <<<<data>>>>
    ELSE <<<<data>> \o oldMessages[1]>>

\* eventSource.onmessage for the next event of the stream.
OnMessage ==
    /\ client.read < Len(written[ClientStream])
    /\ LET data == written[ClientStream][client.read + 1]
       IN  client' = [client EXCEPT !.read = @ + 1,
                         !.cache = IF data.type = "message"
                                   THEN Prepended(@, data.data)
                                   ELSE @]
    /\ UNCHANGED <<dbVars, msgVars, joinReq, createReq, getReq, inviteReq>>

\* ------------------------------------------------------------ SpecClient

\* The view has just mounted: its history request and its EventSource
\* request are on their way; both users send direct messages.
InitClient ==
    /\ InitServerS1
    /\ serverInvites = <<>>
    /\ messages = <<>>
    /\ dmConversations = {}
    /\ sseConnections = <<>>
    /\ conn = [e \in {ClientStream} |-> ConnIdle]
    /\ written = [e \in {ClientStream} |-> <<>>]
    /\ postReq = [p \in Posts |-> PostIdle]
    /\ joinReq = <<>>
    /\ createReq = <<>>
    /\ getReq = <<>>
    /\ inviteReq = <<>>
    /\ client = ClientMounted

NextClient ==
    \/ \E p \in Posts :
          \/ PostDmLookup(p, DmPostInputs)
          \/ PostDmInsertConversation(p)
          \/ PostInsert(p)
          \/ PostReread(p)
          \/ PostPublish(p)
    \/ ConnDmRegister(ClientStream, ClientConnInputs)
    \/ DmGetMessages
    \/ QueryResolve
    \/ OnMessage

SpecClient == InitClient /\ [][NextClient]_vars

\* ------------------------------------------------------------- SpecDmKey

\* The direct-message routes among users whose ids contain '-'.
InitDmKey ==
    /\ InitServerS1
    /\ serverInvites = <<>>
    /\ messages = <<>>
    /\ dmConversations = {}
    /\ sseConnections = <<>>
    /\ conn = [e \in Conns |-> ConnIdle]
    /\ written = [e \in Conns |-> <<>>]
    /\ postReq = [p \in Posts |-> PostIdle]
    /\ joinReq = <<>>
    /\ createReq = <<>>
    /\ getReq = <<>>
    /\ inviteReq = <<>>
    /\ client = <<>>

NextDmKey ==
    \/ \E p \in Posts :
          \/ PostDmLookup(p, HyphenDmPostInputs)
          \/ PostDmInsertConversation(p)
          \/ PostInsert(p)
          \/ PostReread(p)
          \/ PostPublish(p)
    \/ \E e \in Conns :
          \/ ConnDmRegister(e, HyphenDmConnInputs)
          \/ ClientClose(e)
          \/ ConnCloseHandler(e)

SpecDmKey == InitDmKey /\ [][NextDmKey]_vars

\* ------------------------------------------------------------ SpecInvite

\* Members and strangers ask for invites of server s1.
InitInvite ==
    /\ InitServerS1
    /\ serverInvites = <<>>
    /\ InitNoMessaging
    /\ joinReq = <<>>
    /\ createReq = <<>>
    /\ getReq = <<>>
    /\ inviteReq = [i \in Invites |-> InviteIdle]
    /\ client = <<>>

NextInvite ==
    \E i \in Invites :
        \/ InviteCheckMember(i)
        \/ InviteInsert(i)

SpecInvite == InitInvite /\ [][NextInvite]_vars

\* ================================================================ claims

\* The sum of usedCount over the invites of a server.
UsedCountOf(serverId) ==
    LET codes == {c \in DOMAIN serverInvites :
                     serverInvites[c].serverId = serverId}
        sum[S \in SUBSET codes] ==
            IF S = {} THEN 0
            ELSE LET c == CHOOSE x \in S : TRUE
                 IN  serverInvites[c].usedCount + sum[S \ {c}]
    IN  sum[codes]

\* The number of server_members rows of a (serverId, userId) pair.
MembershipRows(serverId, userId) ==
    CountRows(serverMembers,
              {r \in BagToSet(serverMembers) :
                  r.serverId = serverId /\ r.userId = userId})

\* The number of rows joinServer created for a server (role "member").
RedeemedRows(serverId) ==
    CountRows(serverMembers,
              {r \in BagToSet(serverMembers) :
                  r.serverId = serverId /\ r.role = "member"})

\* C1: for every invite with maxUses set, usedCount never exceeds maxUses,
\* also when two non-members redeem the last use concurrently.
C1_UsedCountWithinMaxUses ==
    \A c \in DOMAIN serverInvites :
        serverInvites[c].maxUses # <<>> =>
            serverInvites[c].usedCount <= serverInvites[c].maxUses[1]

\* C6: redemption is atomic: in every reachable state a server has as many
\* redeemed membership rows as its invites count uses (no membership without
\* increment, no increment without membership).
C6_RedemptionAtomic ==
    \A s \in servers : RedeemedRows(s) = UsedCountOf(s)

\* C7: at most one server_members row per (serverId, userId) pair.
C7_UniqueMembership ==
    \A r \in BagToSet(serverMembers) :
        MembershipRows(r.serverId, r.userId) <= 1

\* C8: every existing server row has an owner membership row and at least
\* one channel, in every state another request can observe.
C8_ServerHasOwnerAndChannel ==
    \A s \in servers :
        /\ \E r \in BagToSet(serverMembers) :
              r.serverId = s /\ r.role = "owner"
        /\ \E ch \in BagToSet(channels) : ch.serverId = s

\* Request j arrives (its handler runs up to the first await after the
\* invite was read) with a user and a code of cap `cap` that an earlier
\* request of the same user redeemed with a 200.
RedeemsAgain(j, cap) ==
    /\ joinReq[j].pc = "idle"
    /\ joinReq'[j].pc # "idle"
    /\ joinReq'[j].code \in DOMAIN serverInvites
    /\ serverInvites[joinReq'[j].code].maxUses = <<cap>>
    /\ ~serverInvites[joinReq'[j].code].expired
    /\ \E j1 \in DOMAIN joinReq :
          /\ joinReq[j1].res = "200"
          /\ joinReq[j1].userId = joinReq'[j].userId
          /\ joinReq[j1].code = joinReq'[j].code

\* C13: when a user redeems an invite with maxUses = 1 and no expiry and
\* then redeems it again, the second call fails with AlreadyMember: it is
\* not rejected for the cap, it reaches the already-member check.
C13_AgainFailsAlreadyMember ==
    [][\A j \in DOMAIN joinReq :
          RedeemsAgain(j, 1) =>
             \/ joinReq'[j].pc = "isUserInServer"
             \/ joinReq'[j].res = "400 already member"]_vars

\* C13 amended: the second call fails with ExhaustedUses, the cap check
\* comes before the already-member check.
C13_AgainFailsMaxUses ==
    [][\A j \in DOMAIN joinReq :
          RedeemsAgain(j, 1) =>
             /\ joinReq'[j].pc = "done"
             /\ joinReq'[j].res = "400 max uses"]_vars

\* C13 witness: u2 redeemed K2 (maxUses 1) with a 200 and its second call
\* on K2 was answered "max uses".
C13_Witness ==
    \E j1 \in DOMAIN joinReq, j2 \in DOMAIN joinReq :
        /\ joinReq[j1].res = "200"
        /\ joinReq[j2].res = "400 max uses"
        /\ joinReq[j1].userId = joinReq[j2].userId
        /\ joinReq[j1].code = joinReq[j2].code
        /\ serverInvites[joinReq[j1].code].maxUses = <<1>>
        /\ serverInvites[joinReq[j1].code].usedCount = 1
        /\ MembershipRows("s1", joinReq[j1].userId) = 1

\* The requests answered 200 on an invite code.
SuccessfulRedeems(code) ==
    {j1 \in DOMAIN joinReq :
        joinReq[j1].res = "200" /\ joinReq[j1].code = code}

\* Request j arrives on an invite with maxUses set, after exactly maxUses
\* redeem calls on it were answered 200, for a user who is not a member.
ArrivesAfterLastUse(j) ==
    /\ joinReq[j].pc = "idle"
    /\ joinReq'[j].pc # "idle"
    /\ joinReq'[j].code \in DOMAIN serverInvites
    /\ LET invite == serverInvites[joinReq'[j].code]
       IN  /\ invite.maxUses # <<>>
           /\ ~invite.expired
           /\ Cardinality(SuccessfulRedeems(invite.code)) = invite.maxUses[1]
           /\ ~isUserInServer(joinReq'[j].userId, invite.serverId)

ChannelsOf(serverId) ==
    {ch \in BagToSet(channels) : ch.serverId = serverId}

MembersOf(serverId) ==
    {r \in BagToSet(serverMembers) : r.serverId = serverId}

\* C17: once POST /api/servers has answered 200 for owner U1, the new
\* server has exactly one channel, named "general" of type "text", and
\* exactly one membership, U1's, with role "owner".
C17_CreatedServerShape ==
    \A k \in DOMAIN createReq :
        createReq[k].res = "200" =>
            LET s == createReq[k].serverId
            IN  /\ s \in servers
                /\ CountRows(channels, ChannelsOf(s)) = 1
                /\ \A ch \in ChannelsOf(s) :
                      ch.name = "general" /\ ch.type = "text"
                /\ CountRows(serverMembers, MembersOf(s)) = 1
                /\ \A r \in MembersOf(s) :
                      r.userId = createReq[k].ownerId /\ r.role = "owner"

\* C17 witness: two servers were created with a 200, each with its own
\* channel and its own owner row.
C17_Witness ==
    \E k1 \in DOMAIN createReq, k2 \in DOMAIN createReq :
        /\ k1 # k2
        /\ createReq[k1].res = "200"
        /\ createReq[k2].res = "200"
        /\ Cardinality(ChannelsOf(createReq[k1].serverId)) = 1
        /\ Cardinality(MembersOf(createReq[k2].serverId)) = 1

\* ------------------------------------------------------ messaging claims

\* The connections that are in some list of the registry.
Registered(e) ==
    \E k \in DOMAIN sseConnections : e \in Range(sseConnections[k])

\* Connection e was opened on the scope (channel, or unordered DM pair)
\* that request req posts to.
SameScope(e, req) ==
    /\ conn[e].kind = req.kind
    /\ IF req.kind = "channel"
       THEN conn[e].target = req.target
       ELSE {conn[e].userId, conn[e].target} = {req.userId, req.target}

\* Request p takes its publish step (broadcast loop and response).
Publishes(p) == postReq[p].pc = "publish" /\ postReq'[p].pc = "done"

IsMessage(ev) == ev.type = "message"

\* C2: at most one dm_conversations row per unordered pair of users, also
\* when both users create the conversation concurrently.
C2_OneConversationPerPair ==
    \A c1 \in dmConversations, c2 \in dmConversations :
        {c1.user1Id, c1.user2Id} = {c2.user1Id, c2.user2Id} => c1 = c2

\* C3: a connected client sees the message events of its scope in the
\* order the rows were persisted: never the event of a later row before
\* the event of an earlier one.
C3_DeliveryInPersistenceOrder ==
    \A e \in DOMAIN written :
        conn[e].close = "none" =>
            \A i \in DOMAIN written[e], j \in DOMAIN written[e] :
                (i < j /\ IsMessage(written[e][i]) /\ IsMessage(written[e][j]))
                    => written[e][i].data.id <= written[e][j].data.id

\* C4: the payload a POST publishes and returns is the row that this very
\* request inserted.
C4_PublishesOwnRow ==
    \A p \in DOMAIN postReq :
        postReq[p].fullMessage # <<>> =>
            postReq[p].fullMessage[1].id = postReq[p].messageId

\* C5: a publish calls write with the message event on every connection
\* registered under its scope at that moment (the write returns, or throws
\* and is logged) and on no other connection.
C5_PublishReachesExactlyTheScope ==
    [][\A p \in DOMAIN postReq :
          Publishes(p) =>
             LET ev == MessageEvent(postReq[p].fullMessage[1])
             IN  \A e \in DOMAIN written :
                    IF Registered(e) /\ SameScope(e, postReq[p])
                    THEN \/ written'[e] = Append(written[e], ev)
                         \/ /\ e \in postReq'[p].errors
                            /\ written'[e] = written[e]
                    ELSE /\ written'[e] = written[e]
                         /\ e \notin postReq'[p].errors]_vars

\* C5 witness: a publish reached a connection of its scope while a
\* connection registered under another scope got nothing.
C5_Witness ==
    \E p \in DOMAIN postReq, e1 \in DOMAIN written, e2 \in DOMAIN written :
        /\ postReq[p].pc = "done" /\ postReq[p].status = 200
        /\ Registered(e1) /\ SameScope(e1, postReq[p])
        /\ written[e1] = <<ConnectedEvent,
                           MessageEvent(postReq[p].fullMessage[1])>>
        /\ Registered(e2) /\ ~SameScope(e2, postReq[p])
        /\ written[e2] = <<ConnectedEvent>>

\* C9: in a publish where some write throws, every other connection
\* registered under the scope still gets the message event.
C9_FailedWriteDoesNotStopOthers ==
    [][\A p \in DOMAIN postReq :
          (Publishes(p) /\ postReq'[p].errors # {}) =>
             \A e \in DOMAIN written :
                (Registered(e) /\ SameScope(e, postReq[p])
                    /\ e \notin postReq'[p].errors)
                 => written'[e] =
                      Append(written[e],
                             MessageEvent(postReq[p].fullMessage[1]))]_vars

\* C9 witness: the write to the first connection of the list threw and the
\* connection after it has the event.
C9_Witness ==
    \E p \in DOMAIN postReq :
        /\ postReq[p].pc = "done"
        /\ Len(postReq[p].connections) = 2
        /\ postReq[p].errors = {postReq[p].connections[1]}
        /\ LET e == postReq[p].connections[2]
           IN  written[e][Len(written[e])] =
                  MessageEvent(postReq[p].fullMessage[1])

\* C10: a connection whose write failed during a publish is no longer
\* registered after that publish.
C10_FailedWriteUnsubscribes ==
    \A p \in DOMAIN postReq :
        \A e \in postReq[p].errors : ~Registered(e)

\* ------------------------------------------------------ direct messages

\* Request p arrives as the reply to p1: p1 was the first DM between the
\* two users and has been answered, p goes the other way, and no other POST
\* has been sent.
RepliesToFirstDm(p, p1) ==
    /\ postReq[p].pc = "idle"
    /\ postReq'[p].pc # "idle"
    /\ postReq'[p].kind = "dm"
    /\ postReq[p1].pc = "done"
    /\ postReq[p1].kind = "dm"
    /\ postReq[p1].status = 200
    /\ postReq'[p].userId = postReq[p1].target
    /\ postReq'[p].target = postReq[p1].userId
    /\ \A q \in DOMAIN postReq \ {p, p1} : postReq[q].pc = "idle"

\* C18: the first DM from U1 to U2 creates exactly one dm_conversations
\* row, and a later DM from U2 back to U1 that does not overlap it creates
\* no row and resolves to the same conversation id.
C18_ReplyReusesConversation ==
    [][\A p \in DOMAIN postReq, p1 \in DOMAIN postReq :
          RepliesToFirstDm(p, p1) =>
             /\ Cardinality(dmConversations) = 1
             /\ dmConversations' = dmConversations
             /\ postReq'[p].pc = "createMessage"
             /\ postReq'[p].conversationId = postReq[p1].conversationId]_vars

\* C18 witness: u1's DM to u2 and u2's DM back are both answered, one
\* conversation row exists and both requests resolved to it.
C18_Witness ==
    \E p1 \in DOMAIN postReq, p2 \in DOMAIN postReq :
        /\ postReq[p1].pc = "done" /\ postReq[p2].pc = "done"
        /\ postReq[p1].userId = "u1" /\ postReq[p1].target = "u2"
        /\ postReq[p2].userId = "u2" /\ postReq[p2].target = "u1"
        /\ postReq[p1].conversationId = postReq[p2].conversationId
        /\ Cardinality(dmConversations) = 1
        /\ Len(messages) = 2

\* User ids the pure operators are tried on (a prefix pair and a pair that
\* differs in case among them).
KeyIds == {"u1", "u2", "u3", "u10", "U1"}

\* a <= b in code-unit order.
StrLeq(a, b) == ~StrLess(b, a)

\* C19: every dm_conversations row has user1Id <= user2Id in lexicographic
\* order, whichever argument order createDmConversation was called with, so
\* (A,B) and (B,A) give the same row.
C19_ConversationCanonicalOrder ==
    /\ \A c \in dmConversations : StrLeq(c.user1Id, c.user2Id)
    /\ \A A \in KeyIds, B \in KeyIds :
          /\ StrLeq(ConversationRow(0, A, B).user1Id,
                    ConversationRow(0, A, B).user2Id)
          /\ ConversationRow(0, A, B) = ConversationRow(0, B, A)

\* C19 witness: the row was inserted by a DM from u2 to u1 (larger id
\* first in the call) and is stored as (u1, u2).
C19_Witness ==
    \E p \in DOMAIN postReq, c \in dmConversations :
        /\ postReq[p].userId = "u2" /\ postReq[p].target = "u1"
        /\ postReq[p].conversationId = p
        /\ c.id = p
        /\ c.user1Id = "u1" /\ c.user2Id = "u2"

\* The key of (A, B) is the key of (B, A), for all the ids tried.
DmKeySymmetric ==
    \A A \in KeyIds, B \in KeyIds : dmKey(A, B) = dmKey(B, A)

\* C20: the key the subscribe path computes for (caller A, other B) is the
\* key the publish path computes for (sender B, recipient A): every open DM
\* connection is registered under the key that a DM between the same two
\* users, in either direction, publishes to.
C20_DmKeyOrderIndependent ==
    /\ DmKeySymmetric
    /\ \A p \in DOMAIN postReq, e \in DOMAIN conn :
          (/\ postReq[p].kind = "dm"
           /\ conn[e].kind = "dm"
           /\ {conn[e].userId, conn[e].target}
                 = {postReq[p].userId, postReq[p].target})
          => conn[e].key = PostKey(postReq[p])

\* C20 witness: u1 and u2 each opened the stream of their conversation and
\* one DM reached both connections.
C20_Witness ==
    \E p \in DOMAIN postReq, e1 \in DOMAIN conn, e2 \in DOMAIN conn :
        /\ postReq[p].kind = "dm" /\ postReq[p].pc = "done"
        /\ conn[e1].kind = "dm" /\ conn[e1].userId = "u1"
        /\ conn[e2].kind = "dm" /\ conn[e2].userId = "u2"
        /\ written[e1] = <<ConnectedEvent,
                           MessageEvent(postReq[p].fullMessage[1])>>
        /\ written[e2] = written[e1]

\* ---------------------------------------------------------- access claims

\* The channel row with this id exists.
ChannelExists(C) == \E ch \in BagToSet(channels) : ch.id = C

\* U has a Membership row for the server that owns channel C.
HasMembershipFor(U, C) ==
    \E ch \in BagToSet(channels) :
        /\ ch.id = C
        /\ MembershipRows(ch.serverId, U) >= 1

\* The membership check of a channel request by a non-member completes in
\* this step: the POST handler's first step, the events and the GET
\* handler's resumption after the query.
DeniedPost(p) ==
    /\ postReq[p].pc = "idle" /\ postReq'[p].pc # "idle"
    /\ postReq'[p].kind = "channel"
    /\ ~HasMembershipFor(postReq'[p].userId, postReq'[p].target)

DeniedEvents(e) ==
    /\ conn[e].pc = "isUserInChannel" /\ conn'[e].pc # "isUserInChannel"
    /\ ~HasMembershipFor(conn[e].userId, conn[e].target)

DeniedGet(g) ==
    /\ getReq[g].pc = "isUserInChannel" /\ getReq'[g].pc # "isUserInChannel"
    /\ ~HasMembershipFor(getReq[g].userId, getReq[g].target)

\* Nothing is inserted, published or registered in this step.
NoEffect ==
    /\ messages' = messages
    /\ written' = written
    /\ sseConnections' = sseConnections

\* Every stored channel message was authored by, every registered channel
\* connection was opened by, and every history was served to a member.
OnlyMembersInside ==
    /\ \A m \in Range(messages) :
          m.channelId # NULL => HasMembershipFor(m.userId, m.channelId)
    /\ \A e \in DOMAIN conn :
          (Registered(e) /\ conn[e].kind = "channel")
             => HasMembershipFor(conn[e].userId, conn[e].target)
    /\ \A g \in DOMAIN getReq :
          getReq[g].status = 200
             => HasMembershipFor(getReq[g].userId, getReq[g].target)

\* C15: a GET messages, POST message or GET events request on channel C by
\* a user without a Membership row for C's server is answered 403 and
\* nothing is inserted, published or registered; so every stored channel
\* message and every registered channel connection belongs to a member.
C15_AccessCheckedBeforeEffect ==
    /\ []OnlyMembersInside
    /\ [][/\ \A p \in DOMAIN postReq :
               DeniedPost(p) =>
                  /\ postReq'[p].pc = "done" /\ postReq'[p].status = 403
                  /\ NoEffect
          /\ \A e \in DOMAIN conn :
               DeniedEvents(e) =>
                  /\ conn'[e].pc = "done" /\ conn'[e].status = 403
                  /\ NoEffect
          /\ \A g \in DOMAIN getReq :
               DeniedGet(g) =>
                  /\ getReq'[g].pc = "done" /\ getReq'[g].status = 403
                  /\ getReq'[g].body = {}
                  /\ NoEffect]_vars

\* C15 witness: a non-member was answered 403 on each of the three routes
\* and the channel has no message and no registry entry.
C15_Witness ==
    /\ \E p \in DOMAIN postReq :
          /\ postReq[p].status = 403
          /\ ~HasMembershipFor(postReq[p].userId, postReq[p].target)
    /\ \E e \in DOMAIN conn :
          /\ conn[e].status = 403
          /\ ~HasMembershipFor(conn[e].userId, conn[e].target)
    /\ \E g \in DOMAIN getReq :
          /\ getReq[g].status = 403
          /\ ~HasMembershipFor(getReq[g].userId, getReq[g].target)
    /\ messages = <<>>
    /\ sseConnections = <<>>

\* The users and channel ids the membership query is asked about; no
\* channel row has id "cX".
AccessUsers == {"u1", "u2", "u3"}
AccessChannels == {"c1", "cX"}

\* Request j's joinServer inserts its membership row in this step.
AddsMembership(j) ==
    /\ joinReq[j].pc = "joinServer"
    /\ joinReq'[j].pc = "useServerInvite"

\* C16: isUserInChannel(U, C) is true exactly when C exists and U has a
\* Membership row for C's server; evaluating it changes no table; adding
\* U's membership makes it true for the channels of that server.
C16_IsUserInChannelIffMembership ==
    /\ [](\A U \in AccessUsers, C \in AccessChannels :
            isUserInChannel(U, C) <=>
               (ChannelExists(C) /\ HasMembershipFor(U, C)))
    /\ [][/\ \A g \in DOMAIN getReq :
               (getReq[g].pc = "isUserInChannel"
                   /\ getReq'[g].pc # "isUserInChannel")
                => UNCHANGED dbVars
          /\ \A j \in DOMAIN joinReq :
               AddsMembership(j) =>
                  \A ch \in BagToSet(channels) :
                     ch.serverId = joinReq[j].serverId
                        => isUserInChannel(joinReq[j].userId, ch.id)']_vars

\* C16 witness: u3 was refused the history of c1, then joined the server
\* and is now let in.
C16_Witness ==
    /\ \E g \in DOMAIN getReq :
          getReq[g].userId = "u3" /\ getReq[g].status = 403
    /\ \E j \in DOMAIN joinReq :
          joinReq[j].userId = "u3" /\ joinReq[j].res = "200"
    /\ isUserInChannel("u3", "c1")
    /\ ~isUserInChannel("u3", "cX")
    /\ ~isUserInChannel("u2", "c1")

\* ----------------------------------------------------- events-route claims

\* C11: whenever the client of an events request has closed the transport
\* (also while the handler still awaits the membership check), the
\* connection is eventually absent from the registry.
C11_CloseLeadsToUnsubscribe ==
    \A e \in Conns : (conn[e].close # "none") ~> ~Registered(e)

\* The list without connection e, the others in their order.
Without(connections, e) == SelectSeq(connections, LAMBDA x : x # e)

\* C12: the close listener is idempotent and local: run on any registry the
\* program reaches, for any connection that subscribed, a second run changes
\* nothing, and one run leaves every key in place with the other
\* connections in their order (an empty list when it was the last one).
C12_CloseListenerIdempotentLocal ==
    \A e \in DOMAIN conn :
        conn[e].pc = "open" =>
            LET once == OnClose(sseConnections, conn[e].key, e)
                twice == OnClose(once, conn[e].key, e)
            IN  /\ twice = once
                /\ DOMAIN once = DOMAIN sseConnections
                /\ \A k \in DOMAIN once :
                      once[k] = Without(sseConnections[k], e)

\* C12 witness: the listener of the first of two subscribers of a key has
\* run and the second is still registered, alone in the list.
C12_Witness ==
    \E e1 \in DOMAIN conn, e2 \in DOMAIN conn :
        /\ e1 < e2
        /\ conn[e1].close = "handled"
        /\ conn[e2].pc = "open"
        /\ conn[e2].key = conn[e1].key
        /\ sseConnections[conn[e1].key] = <<e2>>

\* ---------------------------------------------------------- stream claims

\* The client of connection e was there when the handler subscribed it.
Accepted(e) == conn[e].pc = "open" /\ conn[e].close # "missed"

\* C21: on every accepted events stream the first event written is the
\* connected event and every message event comes after it, whatever
\* publishes run around the subscription; the server never drops the
\* stream: the connection is registered until its close listener has run.
C21_ConnectedFirstAndStaysOpen ==
    \A e \in DOMAIN conn :
        /\ Accepted(e) =>
              /\ written[e] # <<>>
              /\ written[e][1] = ConnectedEvent
              /\ \A i \in 2..Len(written[e]) : IsMessage(written[e][i])
        /\ (conn[e].pc = "open" /\ conn[e].close # "handled")
              => Registered(e)

\* C21 witness: a stream was opened while a POST to its channel was under
\* way, it got connected and then that POST's message, and is registered.
C21_Witness ==
    \E e \in DOMAIN conn, p \in DOMAIN postReq :
        /\ Accepted(e) /\ conn[e].close = "none"
        /\ conn[e].kind = "channel"
        /\ postReq[p].kind = "channel" /\ postReq[p].pc = "done"
        /\ Len(written[e]) = 2
        /\ written[e][1] = ConnectedEvent
        /\ written[e][2] = MessageEvent(postReq[p].fullMessage[1])
        /\ Registered(e)

\* Request p inserted its row and has been answered.
Answered(p) == postReq[p].pc = "done" /\ postReq[p].messageId # 0

\* The row request p inserted is in the table.
Persisted(p) ==
    \E m \in Range(messages) : m.id = postReq[p].messageId

\* The response of request p is a 200 carrying a hydrated row.
SuccessWithRow(p) ==
    postReq[p].status = 200 /\ postReq[p].fullMessage # <<>>

\* C22: a POST whose scope has no subscriber at the publish (no registry
\* entry, or an entry left empty) persists the message and is answered 200
\* with the hydrated row, no write error is logged, and the publish adds
\* no entry to the registry: every key was created by a subscription.
C22_PublishToNobodyIsNoOp ==
    /\ \A p \in DOMAIN postReq :
          (Answered(p) /\ postReq[p].connections = <<>>) =>
             /\ Persisted(p)
             /\ SuccessWithRow(p)
             /\ postReq[p].errors = {}
    /\ \A k \in DOMAIN sseConnections :
          \E e \in DOMAIN conn : conn[e].key = k

\* C22 witness: the only subscriber of the scope had closed and was
\* removed, the entry is an empty list, and a POST to it was answered 200.
C22_Witness ==
    \E p \in DOMAIN postReq :
        /\ Answered(p)
        /\ postReq[p].connections = <<>>
        /\ postReq[p].status = 200
        /\ PostKey(postReq[p]) \in DOMAIN sseConnections
        /\ sseConnections[PostKey(postReq[p])] = <<>>

\* C23: when writes to subscribers fail during a POST, some or all of
\* them, the message stays persisted and the sender is answered 200 with
\* the hydrated message.
C23_WriteFailuresNotSurfaced ==
    \A p \in DOMAIN postReq :
        (Answered(p) /\ postReq[p].errors # {}) =>
           /\ Persisted(p)
           /\ SuccessWithRow(p)

\* C23 witness: the scope had two subscribers, both writes threw, and the
\* sender has its 200.
C23_Witness ==
    \E p \in DOMAIN postReq :
        /\ Answered(p)
        /\ Len(postReq[p].connections) = 2
        /\ postReq[p].errors = Range(postReq[p].connections)
        /\ postReq[p].status = 200

\* ---------------------------------------------------------- invite claims

\* C24: invite codes are unique and creation survives a collision: every
\* creation request of a member ends with a 200 and a stored invite of its
\* own code with usedCount 0, also when the code first drawn is taken.
C24_CreationSurvivesCollision ==
    \A i \in DOMAIN inviteReq :
        (inviteReq[i].pc = "done" /\ inviteReq[i].status # 403) =>
           /\ inviteReq[i].status = 200
           /\ inviteReq[i].code \in DOMAIN serverInvites
           /\ serverInvites[inviteReq[i].code].usedCount = 0
           /\ \A k \in DOMAIN inviteReq :
                 (k # i /\ inviteReq[k].status = 200)
                    => inviteReq[k].code # inviteReq[i].code


\* ------------------------------------------------------- message rows

\* The row is a channel message: a channel and no recipient.
IsChannelMessage(m) == m.channelId # NULL /\ m.recipientId = NULL

\* The row is a direct message: a recipient and no channel.
IsDirectMessage(m) == m.channelId = NULL /\ m.recipientId # NULL

\* The row of request p is still what the request inserted.
RowAsInserted(p) ==
    LET m == messages[postReq[p].messageId]
    IN  /\ m.id = postReq[p].messageId
        /\ m.content = p
        /\ m.userId = postReq[p].userId
        /\ IF postReq[p].kind = "channel"
           THEN m.channelId = postReq[p].target
           ELSE m.recipientId = postReq[p].target

\* C25: every row of messages is either a channel message (channelId set,
\* recipientId null) or a direct message (recipientId set, channelId null),
\* never both and never neither; and a row, once inserted, stays in the
\* table exactly as its request inserted it.
C25_ChannelXorDirectAndImmutable ==
    /\ \A i \in DOMAIN messages :
          /\ IsChannelMessage(messages[i]) \/ IsDirectMessage(messages[i])
          /\ ~(messages[i].channelId # NULL /\ messages[i].recipientId # NULL)
    /\ \A p \in DOMAIN postReq :
          postReq[p].messageId # 0 =>
             /\ postReq[p].messageId \in DOMAIN messages
             /\ RowAsInserted(p)

\* A channel message and a direct message are stored and both senders
\* have been answered after other work went on.
C25_Witness ==
    /\ \E i \in DOMAIN messages : IsChannelMessage(messages[i])
    /\ \E i \in DOMAIN messages : IsDirectMessage(messages[i])
    /\ \A p \in DOMAIN postReq : postReq[p].pc = "done"


\* ------------------------------------------------------- delivery

\* Connection e was in the list request p's broadcast loop ran over and
\* its write did not throw.
WrittenBy(p, e) ==
    e \in Range(postReq[p].connections) \ postReq[p].errors

\* Connection e has been sent a message event carrying the row request p
\* inserted: its id, its content and its author's profile.
ReceivedOwnMessage(p, e) ==
    \E i \in DOMAIN written[e] :
        /\ IsMessage(written[e][i])
        /\ written[e][i].data.id = postReq[p].messageId
        /\ written[e][i].data.content = p
        /\ written[e][i].data.user.id = postReq[p].userId

\* C26: when a channel POST has been answered, every connection that was
\* subscribed to the channel at its broadcast has been sent a message
\* event carrying the posted message and its author.
C26_SubscriberGetsPostedMessage ==
    \A p \in DOMAIN postReq :
        (Answered(p) /\ postReq[p].kind = "channel") =>
           \A e \in DOMAIN conn :
               WrittenBy(p, e) => ReceivedOwnMessage(p, e)

\* C28: no connection is sent two message events with the same message id.
C28_NoDuplicateDelivery ==
    \A e \in DOMAIN written :
        \A i, j \in DOMAIN written[e] :
            (i # j /\ IsMessage(written[e][i]) /\ IsMessage(written[e][j]))
               => written[e][i].data.id # written[e][j].data.id


\* ------------------------------------------------------- DM confinement

\* Connection e was opened by one of the two users on the stream of the
\* other.
OpenedByParticipant(e, S, R) ==
    /\ conn[e].kind = "dm"
    /\ \/ conn[e].userId = S /\ conn[e].target = R
       \/ conn[e].userId = R /\ conn[e].target = S

\* The unordered pair of users of a DM request or DM stream.
PairOf(r) == {r.userId, r.target}

\* The DM requests and DM streams the server has computed a key for.
DmKeyed ==
    {postReq[p] : p \in {q \in DOMAIN postReq : postReq[q].kind = "dm"}}
       \cup {conn[e] : e \in {f \in DOMAIN conn : conn[f].kind = "dm"}}

\* Two of them with different pairs of users have different keys.
DmKeyInjective ==
    \A r \in DmKeyed, s \in DmKeyed :
        PairOf(r) # PairOf(s) =>
           dmKey(r.userId, r.target) # dmKey(s.userId, s.target)

\* C27: the broadcast loop of a DM from S to R runs only over connections
\* opened by S on the stream of R or by R on the stream of S; two different
\* unordered pairs of users never have the same registry key; and no key of
\* a DM stream is the id of a channel.
C27_DmConfinedToParticipants ==
    /\ \A p \in DOMAIN postReq :
          (postReq[p].pc = "done" /\ postReq[p].kind = "dm") =>
             \A e \in Range(postReq[p].connections) :
                 OpenedByParticipant(e, postReq[p].userId, postReq[p].target)
    /\ DmKeyInjective
    /\ \A e \in DOMAIN conn :
          conn[e].kind = "dm" =>
             \A ch \in BagToSet(channels) : ch.id # conn[e].key


\* ------------------------------------------------------- failed redemption

\* The four rejections of POST /api/invites/:code/join.
JoinRejections ==
    {"404 invalid", "400 expired", "400 max uses", "400 already member"}

\* Request j takes this step.
JoinSteps(j) == joinReq'[j] # joinReq[j]

\* C29: a rejected redemption has written nothing. The step that rejects
\* a request is taken from the invite lookup or from the membership check,
\* and no step a request takes from there changes the membership table or
\* any invite's usedCount.
C29_RejectedJoinWritesNothing ==
    [][\A j \in DOMAIN joinReq :
          JoinSteps(j) =>
             /\ joinReq'[j].res \in JoinRejections =>
                   joinReq[j].pc \in {"idle", "isUserInServer"}
             /\ joinReq[j].pc \in {"idle", "isUserInServer"} =>
                   /\ serverMembers' = serverMembers
                   /\ serverInvites' = serverInvites]_vars

\* One caller has joined and been counted; another redemption was rejected
\* as already a member and one as over the cap.
C29_Witness ==
    /\ \E j \in DOMAIN joinReq : joinReq[j].res = "200"
    /\ \E j \in DOMAIN joinReq :
          joinReq[j].res \in {"400 already member", "400 max uses"}
    /\ \E c \in DOMAIN serverInvites : serverInvites[c].usedCount > 0


\* ------------------------------------------------------- client cache

\* The cached list of the view (empty while the data is undefined).
CachedMessages == IF client.cache = <<>> THEN <<>> ELSE client.cache[1]

\* The history query has resolved and every event of the stream has been
\* dispatched.
ClientSettled ==
    /\ client.fetch = "resolved"
    /\ client.read = Len(written[ClientStream])

\* C30: once the fetch has resolved and the events have been dispatched,
\* in whatever order, the cached list holds every message sent on the
\* stream, holds no id twice, and is ordered newest first.
C30_CacheHasEachMessageOnce ==
    ClientSettled =>
       /\ \A k \in DOMAIN written[ClientStream] :
             IsMessage(written[ClientStream][k]) =>
                \E i \in DOMAIN CachedMessages :
                    CachedMessages[i].id = written[ClientStream][k].data.id
       /\ \A i, j \in DOMAIN CachedMessages :
             i # j => CachedMessages[i].id # CachedMessages[j].id
       /\ \A i, j \in DOMAIN CachedMessages :
             i < j => CachedMessages[i].createdAt >= CachedMessages[j].createdAt

====
